---- MODULE Spec2Model ----
(***************************************************************************)
(* A model of screener.py, the options calendar-spread screener:           *)
(*   make_api_request            the retrying HTTP fetcher                 *)
(*   get_next_fridays            the expiry calculator                     *)
(*   get_stock_price             the last-trade price lookup               *)
(*   find_atm_options_for_spread the snapshot scan and ATM strike selection*)
(*   extract_detailed_option_data, filter_spread_candidate, main           *)
(*                                                                         *)
(* Units.  Prices are whole cents, implied volatilities whole hundredths,  *)
(* thetas whole ten-thousandths, so that every comparison and every        *)
(* formatted column of the program is exact integer arithmetic.            *)
(*                                                                         *)
(* JSON values, as Python sees them after response.json(), are tagged      *)
(* records: null (Python None), num, str, list, dict.                      *)
(***************************************************************************)
EXTENDS Integers, Sequences, FiniteSets, TLC

VARIABLES
    pc,                 \* where main() is: "init", "scan", "fetch_snapshot", "fetch_price", "done", "crashed";
                        \* "module", "script_error": the module's own statements after the definitions
    today,              \* date.today(), a day number (day 0 is a Monday)
    api_key_set,        \* POLYGON_API_KEY differs from the placeholder
    config,             \* the module-level screening parameters
    expiries,           \* main's (near_expiry, far_expiry), <<>> before they are resolved
    types,              \* main's contract_types_to_process
    ct_idx,             \* index of the outer loop (contract types), 1-based
    tk_idx,             \* index of the inner loop (tickers), 1-based
    potential_spreads,  \* main's list of accepted results
    results_df,         \* the sorted data frame, one row per accepted result
    output,             \* results_df_display: the rows printed, in order
    exception,          \* the exception that escaped main(), "none" if none did
    f_pc,               \* make_api_request: "idle", "loop", "returned", "raised"
    f_url,              \* the endpoint requested: "snapshot" or "last_trade"
    f_attempts,         \* its attempts parameter
    f_delay,            \* its delay parameter
    f_factor,           \* its backoff_factor parameter
    attempt,            \* its loop variable
    f_ret,              \* its return value (JNull is Python's None)
    f_exc,              \* the exception that escaped make_api_request, "none" if none
    requests,           \* the number of requests.get calls the current make_api_request call has made
    sleeps,             \* the time.sleep() arguments of the current call, in order
    met,                \* what each attempt met, in order, when make_api_request is called on its own
    requested,          \* the endpoints requested since the current loop iteration began
    options_data,       \* find_atm_options_for_spread's snapshot while the price lookup runs
    scan_log,           \* the locals of the latest finished find_atm_options_for_spread call
    eval_in,            \* the arguments of the latest filter_spread_candidate call
    eval_out,           \* its returned triple
    __name__,           \* the module's __name__: "__main__" when screener.py is executed as a script
    fridays_n,          \* get_next_fridays's parameter, when it is called on its own
    leg_record,         \* extract_detailed_option_data's argument, when it is called on its own
    leg_data,           \* what it returned or raised
    leg_data_again      \* what it returned or raised when applied to that return value

vars == <<pc, today, api_key_set, config, expiries, types, ct_idx, tk_idx,
          potential_spreads, results_df, output, exception,
          f_pc, f_url, f_attempts, f_delay, f_factor, attempt, f_ret, f_exc,
          requests, sleeps, met, requested, options_data, scan_log, eval_in, eval_out,
          __name__, fridays_n, leg_record, leg_data, leg_data_again>>

mainVars == <<pc, today, api_key_set, config, expiries, types, ct_idx, tk_idx,
              potential_spreads, results_df, output, exception>>

fetchVars == <<f_pc, f_url, f_attempts, f_delay, f_factor, attempt, f_ret, f_exc,
               requests, sleeps, met, requested>>

scanVars == <<options_data, scan_log>>

evalVars == <<eval_in, eval_out>>

outerVars == <<__name__, fridays_n, leg_record, leg_data, leg_data_again>>

----------------------------------------------------------------------------
(* Bounds of the model *)

MaxAttempts == 3    \* attempts values explored for make_api_request: 0..MaxAttempts
MaxDelay == 2       \* delay values explored: 1..MaxDelay
MaxFactor == 2      \* backoff_factor values explored: 1..MaxFactor
MaxContracts == 2   \* a snapshot lists at most MaxContracts contracts
MaxStrike == 5      \* strikes explored for the ATM selection on its own: 1..MaxStrike
MaxListed == 3      \* and at most MaxListed strikes collected
MaxResults == 3     \* accepted results explored for the ranking on its own
NumTickers == 2     \* STOCKS_TO_SCAN lists NumTickers tickers
MaxDay == 60        \* reference dates explored for get_next_fridays: days 0..MaxDay, and a few later ones
MaxFridays == 3     \* n values explored for get_next_fridays: 0..MaxFridays

----------------------------------------------------------------------------
(* Program constants *)

DEFAULT_RETRY_ATTEMPTS == 3
DEFAULT_RETRY_DELAY_SECONDS == 5
DEFAULT_BACKOFF_FACTOR == 2
MIN_OPTION_VOLUME == 100
MIN_OPTION_OPEN_INTEREST == 500
MIN_NET_CREDIT == 1
MIN_IV_PREMIUM_NEAR_OVER_FAR == 0

----------------------------------------------------------------------------
(* JSON values and the Python operations the program applies to them *)

JNull == [t |-> "null"]
JNum(n) == [t |-> "num", v |-> n]
JStr(s) == [t |-> "str", v |-> s]
JList(s) == [t |-> "list", v |-> s]
JDict(f) == [t |-> "dict", v |-> f]
EmptyDict == JDict([k \in {} |-> JNull])

IsDict(x) == x.t = "dict"
IsList(x) == x.t = "list"
IsNum(x) == x.t = "num"
IsStr(x) == x.t = "str"

\* k in d, for a dict d
Has(d, k) == k \in DOMAIN d.v

\* d.get(k, default), for a dict d
GetNoDefault(d, k, default) == IF Has(d, k) THEN d.v[k] ELSE JNull
Get(d, k, default) == IF Has(d, k) THEN d.v[k] ELSE default

\* bool(x)
Truthy(x) ==
    CASE x.t = "null" -> FALSE
      [] x.t = "num" -> x.v # 0
      [] x.t = "str" -> x.v # ""
      [] x.t = "list" -> Len(x.v) > 0
      [] x.t = "dict" -> DOMAIN x.v # {}

RECURSIVE Pow(_, _)
Pow(b, e) == IF e = 0 THEN 1 ELSE b * Pow(b, e - 1)

Abs(x) == IF x < 0 THEN -x ELSE x

----------------------------------------------------------------------------
(* Dates.  A date is its day number; day 0 is Monday 2024-01-01. *)

IsLeap(y) == (y % 4 = 0 /\ y % 100 # 0) \/ y % 400 = 0

DaysInYear(y) == IF IsLeap(y) THEN 366 ELSE 365

DaysInMonth(y, m) ==
    IF m = 2 THEN (IF IsLeap(y) THEN 29 ELSE 28)
    ELSE IF m \in {4, 6, 9, 11} THEN 30 ELSE 31

\* date.weekday(): 0 is Monday, 4 is Friday
weekday(d) == d % 7

\* The (year, month, day) of the date that is n days after the first of
\* month m of year y
RECURSIVE YearMonthDay(_, _, _)
YearMonthDay(y, m, n) ==
    IF n >= DaysInYear(y) /\ m = 1 THEN YearMonthDay(y + 1, 1, n - DaysInYear(y))
    ELSE IF n >= DaysInMonth(y, m) THEN YearMonthDay(y, m + 1, n - DaysInMonth(y, m))
    ELSE <<y, m, n + 1>>

Pad2(n) == IF n < 10 THEN "0" \o ToString(n) ELSE ToString(n)

\* d.strftime('%Y-%m-%d')
strftime(d) ==
    LET ymd == YearMonthDay(2024, 1, d)
    IN  ToString(ymd[1]) \o "-" \o Pad2(ymd[2]) \o "-" \o Pad2(ymd[3])

\* get_next_fridays(n), with date.today() = day
DaysToNextFridayNoSkip(day) == (4 - weekday(day) + 7) % 7
DaysToNextFriday(day) ==
    LET days_to_next_friday == (4 - weekday(day) + 7) % 7
    IN  IF days_to_next_friday = 0 THEN 7 ELSE days_to_next_friday

\* The date objects collected in fridays
NextFridayDates(n, day) ==
    LET current_friday == day + DaysToNextFriday(day)
    IN  [i \in 1..n |-> current_friday + 7 * (i - 1)]

get_next_fridays(n, day) ==
    LET fridays == NextFridayDates(n, day)
    IN  [i \in 1..n |-> strftime(fridays[i])]

----------------------------------------------------------------------------
(* The provider's answers *)

\* Reference prices the provider reports (0 is the "no price" value)
Prices == {0, 2, 4}

\* Bodies of the last-trade endpoint: JSON documents of every shape
\* get_stock_price distinguishes.  A JSON string in a numeric position is
\* text that float() rejects ("n/a").
PriceDocs ==
    {JNull, JList(<<JNum(1)>>),
     JDict("status" :> JStr("OK")),
     JDict("results" :> EmptyDict),
     JDict("results" :> JDict("p" :> JStr("n/a"))),
     JDict("results" :> JDict("p" :> JNull))}
    \cup {JDict("results" :> JDict("p" :> JNum(p))) : p \in Prices}

\* HTTP error statuses the provider answers with
ErrorStatuses == {401, 403, 404, 500}

\* What one requests.get(url) attempt can meet.  "ok": a 2xx response whose
\* body parses; "bad_body": a 2xx response whose body does not parse;
\* "http": raise_for_status() raises for the status; "conn_error", "timeout",
\* "other": requests.get itself raises.
Outcomes(bodies) ==
    {[kind |-> "ok", status |-> 200, body |-> b] : b \in bodies}
    \cup {[kind |-> "http", status |-> s, body |-> JNull] : s \in ErrorStatuses}
    \cup {[kind |-> k, status |-> 0, body |-> JNull] :
            k \in {"bad_body", "conn_error", "timeout", "other"}}

\* The exception class an attempt raises ("none": it returns normally).
\* response.json() raises requests.exceptions.JSONDecodeError.
Raised(o) ==
    CASE o.kind = "ok" -> "none"
      [] o.kind = "http" -> "HTTPError"
      [] o.kind = "bad_body" -> "JSONDecodeError"
      [] o.kind = "conn_error" -> "ConnectionError"
      [] o.kind = "timeout" -> "Timeout"
      [] o.kind = "other" -> "TooManyRedirects"

\* issubclass(e, h) among the requests.exceptions classes met here: each is
\* itself and a RequestException.
IsSubclass(e, h) == e = h \/ h = "RequestException"

----------------------------------------------------------------------------
(* Option-chain snapshots *)

\* Listed strikes; with reference price 2 the two are equally close
Strikes == {1, 3}

\* str.lower() and str.upper() on the strings of the model
Lower(s) ==
    CASE s = "CALL" -> "call"
      [] s = "PUT" -> "put"
      [] s = "Put" -> "put"
      [] s = "BOTH" -> "both"
      [] OTHER -> s

Upper(s) ==
    CASE s = "call" -> "CALL"
      [] s = "put" -> "PUT"
      [] OTHER -> s

\* A well-formed provider record of one listed contract.  The quote, greeks
\* and activity of a record depend on its strike and on whether it is the
\* earlier (front) or a later expiry.
Contract(strike, ctype, exp, front) ==
    JDict("details" :> JDict("strike_price" :> JNum(strike)
                             @@ "contract_type" :> JStr(ctype)
                             @@ "expiration_date" :> JStr(exp))
          @@ "last_quote" :> JDict("bid" :> JNum(IF front THEN 200 ELSE 140 + strike)
                                   @@ "ask" :> JNum(IF front THEN 210 ELSE 150 + strike)
                                   @@ "midpoint" :> JNum(IF front THEN 205 ELSE 145 + strike))
          @@ "greeks" :> JDict("implied_volatility" :> JNum(IF front THEN 30 ELSE 22)
                               @@ "theta" :> JNum(IF front THEN -800 ELSE -300))
          @@ "day" :> JDict("volume" :> JNum(IF front THEN 200 ELSE 150))
          @@ "open_interest" :> JNum(IF front THEN 600 ELSE 700))

\* The entries a snapshot's tickers list can hold, for the run's two
\* expiries: the calls at every listed strike and the puts at one, for
\* either expiry, a call for a later expiry, and the malformed shapes the
\* scan distinguishes (an entry that is no object, an entry whose details
\* is null, a contract whose contract_type is null).
Entries(near, far) ==
    {Contract(k, "call", near, TRUE) : k \in Strikes}
    \cup {Contract(k, "call", far, FALSE) : k \in Strikes}
    \cup {Contract(1, "put", near, TRUE), Contract(1, "put", far, FALSE),
          Contract(1, "call", "2099-01-02", FALSE),
          JStr("n/a"),
          JDict("details" :> JNull),
          JDict("details" :> JDict("strike_price" :> JNum(1)
                                   @@ "contract_type" :> JNull
                                   @@ "expiration_date" :> JStr(near)))}

\* The underlyingAsset of the first entry, when it has one: with price 0,
\* with a price, with a price that is no number
Underlyings ==
    {JDict("price" :> JNum(0)), JDict("price" :> JNum(2)),
     JDict("price" :> JStr("n/a"))}

\* entry with its underlyingAsset set to ua (entry left alone if it is no object)
WithUnderlying(entry, ua) ==
    IF IsDict(entry) THEN JDict(("underlyingAsset" :> ua) @@ entry.v) ELSE entry

SeqsUpTo(S, n) == UNION {[1..k -> S] : k \in 0..n}

\* Bodies of the snapshot endpoint for a run whose expiries are near and far
SnapshotDocs(near, far) ==
    {JNull, EmptyDict, JList(<<JNum(1)>>),
     JDict("status" :> JStr("OK")),
     JDict("tickers" :> JNull),
     JDict("tickers" :> JList(<<>>))}
    \cup {JDict("tickers" :> JList(c)) : c \in SeqsUpTo(Entries(near, far), MaxContracts) \ {<<>>}}
    \cup {JDict("tickers" :> JList([c EXCEPT ![1] = WithUnderlying(c[1], ua)])) :
            c \in SeqsUpTo(Entries(near, far), MaxContracts) \ {<<>>}, ua \in Underlyings}

SnapshotBodies == IF Len(expiries) = 2 THEN SnapshotDocs(expiries[1], expiries[2]) ELSE {JNull}

----------------------------------------------------------------------------
(* get_stock_price and find_atm_options_for_spread *)

\* float(x): the value, or the exception float() raises
Float(x) ==
    CASE x.t = "num" -> [exc |-> "none", val |-> x.v]
      [] x.t = "str" -> [exc |-> "ValueError", val |-> 0]
      [] OTHER -> [exc |-> "TypeError", val |-> 0]

\* get_stock_price after make_api_request has returned data: the price
\* returned (0 for 0.0), or the exception that escapes
get_stock_price(data) ==
    IF ~Truthy(data) THEN [exc |-> "none", val |-> 0]
    ELSE IF ~IsDict(data) THEN [exc |-> "AttributeError", val |-> 0]
    ELSE LET results == Get(data, "results", JNull)
         IN  IF IsDict(results) /\ Has(results, "p")
             THEN (IF Float(results.v["p"]).exc = "none"
                   THEN [exc |-> "none", val |-> Float(results.v["p"]).val]
                   ELSE [exc |-> "none", val |-> 0])
             ELSE [exc |-> "none", val |-> 0]

\* Step 2: the price read from the first contract's underlyingAsset (0 for
\* 0.0: not found, or not a number), or the exception that escapes the try
SnapshotPriceIgnored(ticker_options) == [exc |-> "none", val |-> 0]
SnapshotPrice(ticker_options) ==
    LET first == ticker_options[1]
    IN  IF ~IsDict(first) THEN [exc |-> "AttributeError", val |-> 0]
        ELSE LET underlying_asset_info == Get(first, "underlyingAsset", EmptyDict)
             IN  IF IsDict(underlying_asset_info) /\ Has(underlying_asset_info, "price")
                 THEN (IF Float(underlying_asset_info.v["price"]).exc = "none"
                       THEN [exc |-> "none", val |-> Float(underlying_asset_info.v["price"]).val]
                       ELSE [exc |-> "none", val |-> 0])
                 ELSE [exc |-> "none", val |-> 0]

\* Step 3, the loop: the strike_price of every contract that has one, in
\* the order met; an entry that is no object raises AttributeError, which
\* the except clause (TypeError, KeyError) does not catch.  Strikes are
\* numbers in every record of the model.
RECURSIVE CollectStrikes(_, _)
CollectStrikes(ticker_options, i) ==
    IF i > Len(ticker_options) THEN [exc |-> "none", val |-> <<>>]
    ELSE LET option_contract == ticker_options[i]
             rest == CollectStrikes(ticker_options, i + 1)
         IN  IF ~IsDict(option_contract) THEN [exc |-> "AttributeError", val |-> <<>>]
             ELSE IF rest.exc # "none" THEN rest
             ELSE IF IsDict(Get(option_contract, "details", JNull))
                     /\ Has(option_contract.v["details"], "strike_price")
             THEN [exc |-> "none",
                   val |-> <<option_contract.v["details"].v["strike_price"].v>> \o rest.val]
             ELSE rest

\* sorted(list(set(all_strikes)))
RECURSIVE SortedSet(_)
SortedSet(S) ==
    IF S = {} THEN <<>>
    ELSE LET lo == CHOOSE x \in S : \A y \in S : x <= y
         IN  <<lo>> \o SortedSet(S \ {lo})

Range(seq) == {seq[i] : i \in DOMAIN seq}

DedupSorted(all_strikes) == SortedSet(Range(all_strikes))

\* min(seq, key=lambda x: abs(x - current_price)): the first element whose
\* key is smallest
RECURSIVE MinFrom(_, _, _, _)
MinFrom(seq, current_price, i, best) ==
    IF i > Len(seq) THEN best
    ELSE MinFrom(seq, current_price, i + 1,
                 IF Abs(seq[i] - current_price) < Abs(best - current_price)
                 THEN seq[i] ELSE best)

MinByDistance(seq, current_price) == MinFrom(seq, current_price, 2, seq[1])

\* The ATM strike of step 3 from the strikes collected
AtmStrikeUnsorted(all_strikes, current_price) == MinByDistance(all_strikes, current_price)
AtmStrike(all_strikes, current_price) == MinByDistance(DedupSorted(all_strikes), current_price)

\* Step 4, the loop from entry i on, with the legs found so far (JNull for
\* None).  The assignment of the far leg reads the undefined name option.
RECURSIVE FindLegs(_, _, _, _, _, _, _, _)
FindLegs(ticker_options, i, atm_strike, ctype, near_expiry, far_expiry, near, far) ==
    IF i > Len(ticker_options) THEN [exc |-> "none", near |-> near, far |-> far]
    ELSE LET option_contract == ticker_options[i]
             details == Get(option_contract, "details", EmptyDict)
             strikeHit == Get(details, "strike_price", JNull) = JNum(atm_strike)
             typeVal == Get(details, "contract_type", JStr(""))
             exp == Get(details, "expiration_date", JNull)
         IN  IF ~IsDict(option_contract)
             THEN [exc |-> "AttributeError", near |-> near, far |-> far]
             ELSE IF ~IsDict(details)
             THEN FindLegs(ticker_options, i + 1, atm_strike, ctype,
                           near_expiry, far_expiry, near, far)
             ELSE IF strikeHit /\ ~IsStr(typeVal)
             THEN [exc |-> "AttributeError", near |-> near, far |-> far]
             ELSE IF strikeHit /\ Lower(typeVal.v) = Lower(ctype) /\ exp = JStr(near_expiry)
             THEN (IF Truthy(far)
                   THEN [exc |-> "none", near |-> option_contract, far |-> far]
                   ELSE FindLegs(ticker_options, i + 1, atm_strike, ctype,
                                 near_expiry, far_expiry, option_contract, far))
             ELSE IF strikeHit /\ Lower(typeVal.v) = Lower(ctype) /\ exp = JStr(far_expiry)
             THEN [exc |-> "NameError", near |-> near, far |-> far]
             ELSE FindLegs(ticker_options, i + 1, atm_strike, ctype,
                           near_expiry, far_expiry, near, far)

NoScan ==
    [ticker |-> "", contract_type |-> "", snapshot |-> JNull, price_source |-> "none",
     current_price |-> 0, all_strikes |-> <<>>, atm_strike |-> 0,
     ret |-> JNull, exc |-> "none", done |-> FALSE]

\* Steps 3 and 4 and the return, once current_price is known: the locals
\* of the call as it returns or raises
FindAtmRest(log, ticker_options, near_expiry, far_expiry) ==
    LET strikes == CollectStrikes(ticker_options, 1)
        atm_strike == AtmStrike(strikes.val, log.current_price)
        legs == FindLegs(ticker_options, 1, atm_strike, log.contract_type,
                         near_expiry, far_expiry, JNull, JNull)
    IN  IF strikes.exc # "none" THEN [log EXCEPT !.exc = strikes.exc]
        ELSE IF strikes.val = <<>> THEN log
        ELSE IF legs.exc # "none"
        THEN [log EXCEPT !.all_strikes = strikes.val, !.atm_strike = atm_strike,
                         !.exc = legs.exc]
        ELSE IF ~Truthy(legs.near) \/ ~Truthy(legs.far)
        THEN [log EXCEPT !.all_strikes = strikes.val, !.atm_strike = atm_strike]
        ELSE [log EXCEPT !.all_strikes = strikes.val, !.atm_strike = atm_strike,
                         !.ret = [ticker |-> log.ticker,
                                  current_price |-> log.current_price,
                                  strike_price |-> atm_strike,
                                  near_leg |-> legs.near,
                                  far_leg |-> legs.far]]

\* The call up to the price lookup, once the snapshot request has returned
\* options_data: "return" (None is returned), "raise", "lookup"
\* (get_stock_price is called) or "price" (the snapshot's price is used)
AfterSnapshotFetch(data) ==
    IF ~Truthy(data) THEN [next |-> "return", exc |-> "none", val |-> 0]
    ELSE IF ~IsDict(data) THEN [next |-> "raise", exc |-> "AttributeError", val |-> 0]
    ELSE LET ticker_options == Get(data, "tickers", JNull)
         IN  IF ~IsList(ticker_options) \/ ~Truthy(ticker_options)
             THEN [next |-> "return", exc |-> "none", val |-> 0]
             ELSE IF SnapshotPrice(ticker_options.v).exc # "none"
             THEN [next |-> "raise", exc |-> SnapshotPrice(ticker_options.v).exc, val |-> 0]
             ELSE IF SnapshotPrice(ticker_options.v).val = 0
             THEN [next |-> "lookup", exc |-> "none", val |-> 0]
             ELSE [next |-> "price", exc |-> "none", val |-> SnapshotPrice(ticker_options.v).val]

----------------------------------------------------------------------------
(* extract_detailed_option_data *)

DefaultLeg ==
    [bid |-> JNum(0), ask |-> JNum(0), mid |-> JNum(0), iv |-> JNum(0),
     theta |-> JNum(0), delta |-> JNum(0), gamma |-> JNum(0), vega |-> JNum(0),
     volume |-> JNum(0), oi |-> JNum(0),
     expiry_date |-> JNull, strike_price |-> JNull, contract_type |-> JNull,
     underlying_ticker |-> JNull]

\* Variants of the extraction: one that reads the expiry under expiry_key,
\* one that hands back a record that already is a LegData
ExtractFields(option_leg, expiry_key) ==
    IF ~Truthy(option_leg) THEN [exc |-> "none", val |-> DefaultLeg]
    ELSE IF ~IsDict(option_leg) THEN [exc |-> "AttributeError", val |-> DefaultLeg]
    ELSE LET quote == Get(option_leg, "last_quote", EmptyDict)
             greeks == Get(option_leg, "greeks", EmptyDict)
             details == Get(option_leg, "details", EmptyDict)
             day_data == Get(option_leg, "day", EmptyDict)
         IN  IF ~IsDict(quote) \/ ~IsDict(greeks) \/ ~IsDict(details) \/ ~IsDict(day_data)
             THEN [exc |-> "AttributeError", val |-> DefaultLeg]
             ELSE IF ~IsDict(Get(details, "underlying_asset", EmptyDict))
             THEN [exc |-> "AttributeError", val |-> DefaultLeg]
             ELSE [exc |-> "none",
                   val |-> [bid |-> Get(quote, "bid", JNum(0)),
                            ask |-> Get(quote, "ask", JNum(0)),
                            mid |-> Get(quote, "midpoint", JNum(0)),
                            iv |-> Get(greeks, "implied_volatility", JNum(0)),
                            theta |-> Get(greeks, "theta", JNum(0)),
                            delta |-> Get(greeks, "delta", JNum(0)),
                            gamma |-> Get(greeks, "gamma", JNum(0)),
                            vega |-> Get(greeks, "vega", JNum(0)),
                            volume |-> Get(day_data, "volume", JNum(0)),
                            oi |-> Get(option_leg, "open_interest", JNum(0)),
                            expiry_date |-> Get(details, expiry_key, JNull),
                            strike_price |-> Get(details, "strike_price", JNull),
                            contract_type |-> Get(details, "contract_type", JNull),
                            underlying_ticker |->
                                Get(Get(details, "underlying_asset", EmptyDict), "ticker", JNull)]]

ExtractExpiryKey(option_leg) == ExtractFields(option_leg, "expiry_date")

ExtractKeepsLegData(option_leg) ==
    IF IsDict(option_leg) /\ Has(option_leg, "bid")
    THEN [exc |-> "none", val |-> option_leg.v]
    ELSE ExtractFields(option_leg, "expiration_date")

\* The LegData of option_leg, or the exception raised: .get on a value that
\* is no dict raises AttributeError
extract_detailed_option_data(option_leg) ==
    IF ~Truthy(option_leg) THEN [exc |-> "none", val |-> DefaultLeg]
    ELSE IF ~IsDict(option_leg) THEN [exc |-> "AttributeError", val |-> DefaultLeg]
    ELSE LET quote == Get(option_leg, "last_quote", EmptyDict)
             greeks == Get(option_leg, "greeks", EmptyDict)
             details == Get(option_leg, "details", EmptyDict)
             day_data == Get(option_leg, "day", EmptyDict)
         IN  IF ~IsDict(quote) \/ ~IsDict(greeks) \/ ~IsDict(details) \/ ~IsDict(day_data)
             THEN [exc |-> "AttributeError", val |-> DefaultLeg]
             ELSE IF ~IsDict(Get(details, "underlying_asset", EmptyDict))
             THEN [exc |-> "AttributeError", val |-> DefaultLeg]
             ELSE [exc |-> "none",
                   val |-> [bid |-> Get(quote, "bid", JNum(0)),
                            ask |-> Get(quote, "ask", JNum(0)),
                            mid |-> Get(quote, "midpoint", JNum(0)),
                            iv |-> Get(greeks, "implied_volatility", JNum(0)),
                            theta |-> Get(greeks, "theta", JNum(0)),
                            delta |-> Get(greeks, "delta", JNum(0)),
                            gamma |-> Get(greeks, "gamma", JNum(0)),
                            vega |-> Get(greeks, "vega", JNum(0)),
                            volume |-> Get(day_data, "volume", JNum(0)),
                            oi |-> Get(option_leg, "open_interest", JNum(0)),
                            expiry_date |-> Get(details, "expiration_date", JNull),
                            strike_price |-> Get(details, "strike_price", JNull),
                            contract_type |-> Get(details, "contract_type", JNull),
                            underlying_ticker |->
                                Get(Get(details, "underlying_asset", EmptyDict), "ticker", JNull)]]

----------------------------------------------------------------------------
(* filter_spread_candidate *)

\* The module-level screening parameters as shipped
DefaultConfig ==
    [contract_type |-> "call",
     min_option_volume |-> MIN_OPTION_VOLUME,
     min_open_interest |-> MIN_OPTION_OPEN_INTEREST,
     min_net_credit |-> MIN_NET_CREDIT,
     min_iv_premium |-> MIN_IV_PREMIUM_NEAR_OVER_FAR,
     require_positive_net_theta |-> TRUE]

RECURSIVE Digits(_, _)
Digits(n, width) == IF width = 0 THEN "" ELSE Digits(n \div 10, width - 1) \o ToString(n % 10)

\* f"{x:.<digits>f}" for x = n / scale, where scale divides 10^digits
Fixed(n, scale, digits) ==
    (IF n < 0 THEN "-" ELSE "") \o ToString(Abs(n) \div scale) \o "."
    \o Digits((Abs(n) % scale) * (Pow(10, digits) \div scale), digits)

\* The liquidity condition, evaluated left to right: "pass", "fail", or
\* "TypeError" when a value compared is no number
RECURSIVE AllAtLeast(_, _, _)
AllAtLeast(vals, mins, i) ==
    IF i > Len(vals) THEN "pass"
    ELSE IF ~IsNum(vals[i]) THEN "TypeError"
    ELSE IF vals[i].v >= mins[i] THEN AllAtLeast(vals, mins, i + 1)
    ELSE "fail"

LiquidityNearOnly(near, far, cfg) ==
    AllAtLeast(<<near.volume, near.oi>>,
               <<cfg.min_option_volume, cfg.min_open_interest>>, 1)
Liquidity(near, far, cfg) ==
    AllAtLeast(<<near.volume, near.oi, far.volume, far.oi>>,
               <<cfg.min_option_volume, cfg.min_open_interest,
                 cfg.min_option_volume, cfg.min_open_interest>>, 1)

NetCreditOf(near, far) == near.bid.v - far.ask.v

IvDifferenceOf(near, far) == near.iv.v - far.iv.v

NetThetaOf(near, far) == (-1 * near.theta.v) + far.theta.v

\* The reason of an accepted spread (Python's None)
NoReason == "None"

Rejected(reason) == [exc |-> "none", ok |-> FALSE, reason |-> reason, result |-> JNull]

\* The result dict of an accepted spread, a function of its column names
ResultRow(spread_info, near, far, contract_type) ==
    ("Ticker" :> spread_info.ticker)
    @@ ("Stock Price" :> "$" \o Fixed(spread_info.current_price, 1, 2))
    @@ ("Strike" :> spread_info.strike_price)
    @@ ("Near Expiry" :> near.expiry_date)
    @@ ("Far Expiry" :> far.expiry_date)
    @@ ("Net Credit" :> "$" \o Fixed(NetCreditOf(near, far), 100, 2))
    @@ ("_NetCreditNum" :> NetCreditOf(near, far))
    @@ ("Net Theta" :> Fixed(NetThetaOf(near, far), 10000, 4))
    @@ ("IV Diff (Near-Far)" :> Fixed(IvDifferenceOf(near, far), 100, 4))
    @@ ("Near IV" :> Fixed(near.iv.v, 100, 2))
    @@ ("Far IV" :> Fixed(far.iv.v, 100, 2))
    @@ ("Contract Type" :> Upper(contract_type))

\* A variant that applies the net-credit check before the liquidity check
FilterCreditFirst(spread_info, near, far, contract_type, cfg) ==
    IF NetCreditOf(near, far) < cfg.min_net_credit THEN Rejected("Net Credit Failed")
    ELSE IF Liquidity(near, far, cfg) = "fail" THEN Rejected("Liquidity Failed")
    ELSE IF IvDifferenceOf(near, far) < cfg.min_iv_premium THEN Rejected("IV Premium Failed")
    ELSE IF cfg.require_positive_net_theta /\ NetThetaOf(near, far) <= 0
    THEN Rejected("Net Theta Failed")
    ELSE [exc |-> "none", ok |-> TRUE, reason |-> NoReason,
          result |-> ResultRow(spread_info, near, far, contract_type)]

\* The returned triple (is_good_spread, failure_reason, result_dict), the
\* reason by the check it names; exc is the exception raised instead
filter_spread_candidate(spread_info, near, far, contract_type, cfg) ==
    IF Liquidity(near, far, cfg) = "TypeError"
    THEN [exc |-> "TypeError", ok |-> FALSE, reason |-> NoReason, result |-> JNull]
    ELSE IF Liquidity(near, far, cfg) = "fail" THEN Rejected("Liquidity Failed")
    ELSE IF ~IsNum(near.bid) \/ ~IsNum(far.ask)
    THEN [exc |-> "TypeError", ok |-> FALSE, reason |-> NoReason, result |-> JNull]
    ELSE IF NetCreditOf(near, far) < cfg.min_net_credit THEN Rejected("Net Credit Failed")
    ELSE IF ~IsNum(near.iv) \/ ~IsNum(far.iv)
    THEN [exc |-> "TypeError", ok |-> FALSE, reason |-> NoReason, result |-> JNull]
    ELSE IF IvDifferenceOf(near, far) < cfg.min_iv_premium THEN Rejected("IV Premium Failed")
    ELSE IF ~IsNum(near.theta) \/ ~IsNum(far.theta)
    THEN [exc |-> "TypeError", ok |-> FALSE, reason |-> NoReason, result |-> JNull]
    ELSE IF cfg.require_positive_net_theta /\ NetThetaOf(near, far) <= 0
    THEN Rejected("Net Theta Failed")
    ELSE [exc |-> "none", ok |-> TRUE, reason |-> NoReason,
          result |-> ResultRow(spread_info, near, far, contract_type)]

----------------------------------------------------------------------------
(* make_api_request *)

\* The except clauses of the try block, in order
HandlersNoCatchAll == <<"HTTPError", "ConnectionError", "Timeout">>
Handlers == <<"HTTPError", "ConnectionError", "Timeout", "RequestException">>

\* Whether some except clause catches exception class e
Caught(e) == \E i \in 1..Len(Handlers) : IsSubclass(e, Handlers[i])

\* Statuses after which the HTTPError handler returns None at once
TerminalStatusesOnly401 == {401}
TerminalStatuses == {401, 404}

\* The sleep before the next attempt, after 0-indexed attempt a
SleepTimeOffByOne(delay, factor, a) == delay * Pow(factor, a + 1)
SleepTime(delay, factor, a) == delay * Pow(factor, a)

\* Whether the loop sleeps and goes on after a failed attempt a
RetriesAfter(a, attempts) == a < attempts - 1

\* One iteration of the for loop: requests.get, raise_for_status, json, the
\* except clauses, then the sleep or the final return.
FetchAttempt ==
    /\ f_pc = "loop"
    /\ attempt < f_attempts
    /\ \E o \in Outcomes(IF f_url = "last_trade" THEN PriceDocs ELSE SnapshotBodies) :
        /\ met' = IF pc = "call" THEN Append(met, [kind |-> o.kind, status |-> o.status]) ELSE met
        /\ requests' = requests + 1
        /\ requested' = requested \cup {f_url}
        /\ IF Raised(o) = "none"
           THEN /\ f_pc' = "returned"
                /\ f_ret' = o.body
                /\ UNCHANGED <<attempt, sleeps, f_exc>>
           ELSE IF ~Caught(Raised(o))
           THEN /\ f_pc' = "raised"
                /\ f_exc' = Raised(o)
                /\ UNCHANGED <<attempt, sleeps, f_ret>>
           ELSE IF Raised(o) = "HTTPError" /\ o.status \in TerminalStatuses
           THEN /\ f_pc' = "returned"
                /\ f_ret' = JNull
                /\ UNCHANGED <<attempt, sleeps, f_exc>>
           ELSE IF RetriesAfter(attempt, f_attempts)
           THEN /\ sleeps' = Append(sleeps, SleepTime(f_delay, f_factor, attempt))
                /\ attempt' = attempt + 1
                /\ UNCHANGED <<f_pc, f_ret, f_exc>>
           ELSE /\ f_pc' = "returned"
                /\ f_ret' = JNull
                /\ UNCHANGED <<attempt, sleeps, f_exc>>
    /\ UNCHANGED <<f_url, f_attempts, f_delay, f_factor>>
    /\ UNCHANGED <<mainVars, scanVars, evalVars, outerVars>>

\* The return after the loop, reached when range(attempts) is exhausted
FetchFallthrough ==
    /\ f_pc = "loop"
    /\ attempt >= f_attempts
    /\ f_pc' = "returned"
    /\ f_ret' = JNull
    /\ UNCHANGED <<f_url, f_attempts, f_delay, f_factor, attempt, f_exc,
                   requests, sleeps, met, requested>>
    /\ UNCHANGED <<mainVars, scanVars, evalVars, outerVars>>

----------------------------------------------------------------------------
(* main *)

STOCKS_TO_SCAN == [i \in 1..NumTickers |-> "T" \o ToString(i)]

\* contract_types_to_process for a CONTRACT_TYPE_TO_SCAN value
ContractTypesToProcess(contract_type_to_scan) ==
    IF Lower(contract_type_to_scan) = "both" THEN <<"call", "put">>
    ELSE IF Lower(contract_type_to_scan) \in {"call", "put"}
    THEN <<Lower(contract_type_to_scan)>>
    ELSE <<"call">>

\* The orders results_df.sort_values(by="_NetCreditNum", ascending=False)
\* can give the rows: every arrangement of them in which the net credit
\* never increases.  sort_values sorts with kind='quicksort', which is not
\* stable: rows of equal net credit may come out in any order.
SortValuesAscending(rows) ==
    {[i \in 1..Len(rows) |-> rows[p[i]]] : p \in
        {q \in Permutations(1..Len(rows)) :
            \A i \in 1..(Len(rows) - 1) :
                rows[q[i]]["_NetCreditNum"] <= rows[q[i + 1]]["_NetCreditNum"]}}
SortValues(rows) ==
    {[i \in 1..Len(rows) |-> rows[p[i]]] : p \in
        {q \in Permutations(1..Len(rows)) :
            \A i \in 1..(Len(rows) - 1) :
                rows[q[i]]["_NetCreditNum"] >= rows[q[i + 1]]["_NetCreditNum"]}}

\* results_df.drop(columns=['_NetCreditNum']), row by row
DropNetCreditNum(rows) ==
    [i \in 1..Len(rows) |-> [c \in DOMAIN rows[i] \ {"_NetCreditNum"} |-> rows[i][c]]]

\* The pair the loops stand at, and whether both loops are over
Ticker == STOCKS_TO_SCAN[tk_idx]
ContractType == types[ct_idx]
LoopsOver == ct_idx > Len(types)

\* The loop indices after the current iteration
NextTkIdx == IF tk_idx < NumTickers THEN tk_idx + 1 ELSE 1
NextCtIdx == IF tk_idx < NumTickers THEN ct_idx ELSE ct_idx + 1

\* main up to the loops: the API key check, the two expiries, the contract
\* types to process
MainStartUnresolved ==
    /\ pc = "init"
    /\ IF ~api_key_set
       THEN /\ pc' = "done"
            /\ UNCHANGED <<expiries, types>>
       ELSE /\ types' = ContractTypesToProcess(config.contract_type)
            /\ pc' = "scan"
            /\ UNCHANGED expiries
    /\ UNCHANGED <<today, api_key_set, config, ct_idx, tk_idx, potential_spreads,
                   results_df, output, exception>>
    /\ UNCHANGED <<fetchVars, scanVars, evalVars, outerVars>>
MainStart ==
    /\ pc = "init"
    /\ IF ~api_key_set
       THEN /\ pc' = "done"
            /\ UNCHANGED <<expiries, types>>
       ELSE IF Len(get_next_fridays(2, today)) < 2
       THEN /\ pc' = "done"
            /\ UNCHANGED <<expiries, types>>
       ELSE /\ expiries' = get_next_fridays(2, today)
            /\ types' = ContractTypesToProcess(config.contract_type)
            /\ pc' = "scan"
    /\ UNCHANGED <<today, api_key_set, config, ct_idx, tk_idx, potential_spreads,
                   results_df, output, exception>>
    /\ UNCHANGED <<fetchVars, scanVars, evalVars, outerVars>>

\* make_api_request(url) is called with its default parameters
CallFetch(url) ==
    /\ f_pc' = "loop"
    /\ f_url' = url
    /\ f_attempts' = DEFAULT_RETRY_ATTEMPTS
    /\ f_delay' = DEFAULT_RETRY_DELAY_SECONDS
    /\ f_factor' = DEFAULT_BACKOFF_FACTOR
    /\ attempt' = 0
    /\ f_ret' = JNull
    /\ f_exc' = "none"
    /\ requests' = 0
    /\ sleeps' = <<>>
    /\ UNCHANGED met

\* One loop iteration begins: find_atm_options_for_spread is called and
\* requests the snapshot
ScanStart ==
    /\ pc = "scan"
    /\ ~LoopsOver
    /\ pc' = "fetch_snapshot"
    /\ CallFetch("snapshot")
    /\ requested' = {}
    /\ scan_log' = [NoScan EXCEPT !.ticker = Ticker, !.contract_type = ContractType]
    /\ options_data' = JNull
    /\ UNCHANGED <<today, api_key_set, config, expiries, types, ct_idx, tk_idx,
                   potential_spreads, results_df, output, exception>>
    /\ UNCHANGED <<evalVars, outerVars>>

\* What the rest of the iteration does once current_price is in log: the
\* rest of find_atm_options_for_spread, then main's extraction and filter.
\* crash is the exception that escapes main ("none" if none), rows the
\* results appended to potential_spreads.
Iteration(log) ==
    LET fin == [FindAtmRest(log, log.snapshot.v["tickers"].v, expiries[1], expiries[2])
                    EXCEPT !.done = TRUE]
        near == extract_detailed_option_data(fin.ret.near_leg)
        far == extract_detailed_option_data(fin.ret.far_leg)
        triple == filter_spread_candidate(fin.ret, near.val, far.val, log.contract_type, config)
        quiet == [crash |-> "none", log |-> fin, rows |-> <<>>,
                  eval_in |-> eval_in, eval_out |-> eval_out]
    IN  IF fin.exc # "none" THEN [quiet EXCEPT !.crash = fin.exc]
        ELSE IF fin.ret = JNull THEN quiet
        ELSE IF ~Truthy(fin.ret.near_leg) \/ ~Truthy(fin.ret.far_leg) THEN quiet
        ELSE IF near.exc # "none" THEN [quiet EXCEPT !.crash = near.exc]
        ELSE IF far.exc # "none" THEN [quiet EXCEPT !.crash = far.exc]
        ELSE IF triple.exc # "none"
        THEN [quiet EXCEPT !.crash = triple.exc,
                           !.eval_in = [near |-> near.val, far |-> far.val]]
        ELSE [quiet EXCEPT !.eval_in = [near |-> near.val, far |-> far.val],
                           !.eval_out = triple,
                           !.rows = IF triple.ok /\ triple.result # JNull
                                    THEN <<triple.result>> ELSE <<>>]

\* The iteration ends with outcome it: main crashes, or goes to the next pair
EndIteration(it) ==
    /\ scan_log' = it.log
    /\ eval_in' = it.eval_in
    /\ eval_out' = it.eval_out
    /\ f_pc' = "idle"
    /\ attempt' = 0
    /\ f_ret' = JNull
    /\ requests' = 0
    /\ sleeps' = <<>>
    /\ options_data' = JNull
    /\ IF it.crash # "none"
       THEN /\ pc' = "crashed"
            /\ exception' = it.crash
            /\ UNCHANGED <<ct_idx, tk_idx, potential_spreads>>
       ELSE /\ pc' = "scan"
            /\ tk_idx' = NextTkIdx
            /\ ct_idx' = NextCtIdx
            /\ potential_spreads' = potential_spreads \o it.rows
            /\ UNCHANGED exception
    /\ UNCHANGED <<today, api_key_set, config, expiries, types, results_df, output>>
    /\ UNCHANGED <<f_url, f_attempts, f_delay, f_factor, f_exc, met, requested>>
    /\ UNCHANGED outerVars

\* The iteration ends with find_atm_options_for_spread returning None, or
\* raising exc, before any strike was looked at; source tells where
\* current_price (0.0 still) was last assigned from
EarlyEnd(exc, source) ==
    EndIteration([crash |-> exc,
                  log |-> [scan_log EXCEPT !.snapshot = IF pc = "fetch_snapshot"
                                                         THEN f_ret ELSE options_data,
                                           !.price_source = source,
                                           !.exc = exc, !.done = TRUE],
                  rows |-> <<>>, eval_in |-> eval_in, eval_out |-> eval_out])

\* The snapshot request has returned: steps 1 and 2, then either the price
\* lookup is requested or the iteration runs to its end
SnapshotReturned ==
    /\ pc = "fetch_snapshot"
    /\ f_pc = "returned"
    /\ LET step == AfterSnapshotFetch(f_ret)
       IN  CASE step.next = "return" -> EarlyEnd("none", "none")
             [] step.next = "raise" -> EarlyEnd(step.exc, "none")
             [] step.next = "price" ->
                    EndIteration(Iteration([scan_log EXCEPT !.snapshot = f_ret,
                                                            !.price_source = "snapshot",
                                                            !.current_price = step.val]))
             [] step.next = "lookup" ->
                    /\ pc' = "fetch_price"
                    /\ options_data' = f_ret
                    /\ CallFetch("last_trade")
                    /\ UNCHANGED <<requested, scan_log>>
                    /\ UNCHANGED <<today, api_key_set, config, expiries, types, ct_idx,
                                   tk_idx, potential_spreads, results_df, output, exception>>
                    /\ UNCHANGED <<evalVars, outerVars>>

\* The last-trade request has returned: the rest of get_stock_price, the
\* check of its price, then the iteration runs to its end
PriceReturned ==
    /\ pc = "fetch_price"
    /\ f_pc = "returned"
    /\ LET price == get_stock_price(f_ret)
       IN  IF price.exc # "none" THEN EarlyEnd(price.exc, "none")
           ELSE IF price.val = 0 THEN EarlyEnd("none", "fallback")
           ELSE EndIteration(Iteration([scan_log EXCEPT !.snapshot = options_data,
                                                        !.price_source = "fallback",
                                                        !.current_price = price.val]))

\* The loops are over: the results are sorted and displayed
Rank ==
    /\ pc = "scan"
    /\ LoopsOver
    /\ pc' = "done"
    /\ \E sorted \in SortValues(potential_spreads) :
        /\ results_df' = sorted
        /\ output' = DropNetCreditNum(sorted)
    /\ UNCHANGED <<today, api_key_set, config, expiries, types, ct_idx, tk_idx,
                   potential_spreads, exception>>
    /\ UNCHANGED <<fetchVars, scanVars, evalVars, outerVars>>

----------------------------------------------------------------------------
(* The module's own statements, lines 427-431 *)

\* The names bound at module level once the definitions have been executed
\* (the imports, the parameters and the functions); results_df is a local
\* of main
ModuleGlobals ==
    {"requests", "pd", "date", "timedelta", "time", "os",
     "POLYGON_API_KEY", "STOCKS_TO_SCAN", "MIN_OPTION_VOLUME", "MIN_OPTION_OPEN_INTEREST",
     "MIN_NET_CREDIT", "MIN_IV_PREMIUM_NEAR_OVER_FAR", "REQUIRE_POSITIVE_NET_THETA",
     "CONTRACT_TYPE_TO_SCAN", "DEFAULT_RETRY_ATTEMPTS", "DEFAULT_RETRY_DELAY_SECONDS",
     "make_api_request", "get_next_fridays", "get_stock_price",
     "find_atm_options_for_spread", "extract_detailed_option_data",
     "filter_spread_candidate", "main"}

\* How the module is loaded: executed as a script, or imported by a caller
\* that then calls main()
ModuleNames == {"__main__", "screener"}

\* The two guarded statements of a script execution: the first reads
\* results_df at module level, which raises NameError when the name is not
\* bound, and the interpreter exits; only after it is main() called.
RunScript ==
    /\ pc = "module"
    /\ __name__ = "__main__"
    /\ pc' = IF "results_df" \in ModuleGlobals THEN "init" ELSE "script_error"
    /\ UNCHANGED <<today, api_key_set, config, expiries, types, ct_idx, tk_idx,
                   potential_spreads, results_df, output, exception>>
    /\ UNCHANGED <<fetchVars, scanVars, evalVars, outerVars>>

----------------------------------------------------------------------------
(* A screening run: main() from its first statement *)

\* date.today(): Friday 2026-11-06
RunDays == {1040}

\* CONTRACT_TYPE_TO_SCAN values: both types, one type in mixed case, an
\* invalid value
RunContractTypes == {"both", "Put", "straddle"}

\* Nothing has been fetched, scanned or evaluated yet
FetchIdle ==
    /\ f_pc = "idle"
    /\ f_url = "snapshot"
    /\ f_attempts = DEFAULT_RETRY_ATTEMPTS
    /\ f_delay = DEFAULT_RETRY_DELAY_SECONDS
    /\ f_factor = DEFAULT_BACKOFF_FACTOR
    /\ attempt = 0
    /\ f_ret = JNull
    /\ f_exc = "none"
    /\ requests = 0
    /\ sleeps = <<>>
    /\ met = <<>>
    /\ requested = {}

ScanIdle ==
    /\ options_data = JNull
    /\ scan_log = NoScan

EvalIdle ==
    /\ eval_in = [near |-> DefaultLeg, far |-> DefaultLeg]
    /\ eval_out = Rejected("none")

\* No function is applied on its own
NoLeg == [exc |-> "none", val |-> DefaultLeg]

UnitIdle ==
    /\ fridays_n = 2
    /\ leg_record = JNull
    /\ leg_data = NoLeg
    /\ leg_data_again = NoLeg

\* The module was imported as screener
OuterIdle ==
    /\ __name__ = "screener"
    /\ UnitIdle

\* main is not running: one function is applied on its own, at position p
MainIdle(p) ==
    /\ pc = p
    /\ today = 0
    /\ api_key_set = TRUE
    /\ config = DefaultConfig
    /\ expiries = <<>>
    /\ types = <<>>
    /\ ct_idx = 1
    /\ tk_idx = 1
    /\ potential_spreads = <<>>
    /\ results_df = <<>>
    /\ output = <<>>
    /\ exception = "none"

Init ==
    /\ __name__ \in ModuleNames
    /\ pc = IF __name__ = "__main__" THEN "module" ELSE "init"
    /\ today \in RunDays
    /\ api_key_set \in BOOLEAN
    /\ config \in {[DefaultConfig EXCEPT !.contract_type = c] : c \in RunContractTypes}
    /\ expiries = <<>>
    /\ types = <<>>
    /\ ct_idx = 1
    /\ tk_idx = 1
    /\ potential_spreads = <<>>
    /\ results_df = <<>>
    /\ output = <<>>
    /\ exception = "none"
    /\ FetchIdle
    /\ ScanIdle
    /\ EvalIdle
    /\ UnitIdle

Next ==
    \/ RunScript
    \/ MainStart
    \/ ScanStart
    \/ FetchAttempt
    \/ SnapshotReturned
    \/ PriceReturned
    \/ Rank

Spec == Init /\ [][Next]_vars

----------------------------------------------------------------------------
(* make_api_request called on its own, for every attempts, delay and
   backoff_factor within the bounds *)

InitFetch ==
    /\ MainIdle("call")
    /\ f_pc = "loop"
    /\ f_url = "last_trade"
    /\ f_attempts \in 0..MaxAttempts
    /\ f_delay \in 1..MaxDelay
    /\ f_factor \in 1..MaxFactor
    /\ attempt = 0
    /\ f_ret = JNull
    /\ f_exc = "none"
    /\ requests = 0
    /\ sleeps = <<>>
    /\ met = <<>>
    /\ requested = {}
    /\ ScanIdle
    /\ EvalIdle
    /\ OuterIdle

NextFetch ==
    \/ FetchAttempt
    \/ FetchFallthrough

SpecFetch == InitFetch /\ [][NextFetch]_vars

----------------------------------------------------------------------------
(* The ATM selection of find_atm_options_for_spread (step 3 after the
   strikes are collected) on its own, for every list of strikes and every
   reference price within the bounds *)

InitAtm ==
    /\ MainIdle("select")
    /\ FetchIdle
    /\ options_data = JNull
    /\ \E s \in SeqsUpTo(1..MaxStrike, MaxListed) \ {<<>>}, p \in 0..(MaxStrike + 1) :
        scan_log = [NoScan EXCEPT !.all_strikes = s, !.current_price = p]
    /\ EvalIdle
    /\ OuterIdle

SelectAtm ==
    /\ pc = "select"
    /\ pc' = "selected"
    /\ scan_log' = [scan_log EXCEPT
                        !.atm_strike = AtmStrike(scan_log.all_strikes, scan_log.current_price),
                        !.done = TRUE]
    /\ UNCHANGED <<today, api_key_set, config, expiries, types, ct_idx, tk_idx,
                   potential_spreads, results_df, output, exception>>
    /\ UNCHANGED <<fetchVars, options_data, evalVars, outerVars>>

NextAtm == SelectAtm

SpecAtm == InitAtm /\ [][NextAtm]_vars

----------------------------------------------------------------------------
(* filter_spread_candidate on its own, for legs around every threshold *)

\* A LegData with the fields the filter reads
Leg(bid, ask, iv, theta, volume, oi, expiry) ==
    [DefaultLeg EXCEPT !.bid = JNum(bid), !.ask = JNum(ask), !.iv = JNum(iv),
                       !.theta = JNum(theta), !.volume = JNum(volume), !.oi = JNum(oi),
                       !.expiry_date = JStr(expiry)]

NearLegs ==
    {Leg(bid, bid + 10, iv, theta, volume, oi, "2026-11-13") :
        bid \in {150, 151, 200}, iv \in {22, 30}, theta \in {-800, -300, 300},
        volume \in {99, 100, 200}, oi \in {499, 500, 600}}

FarLegs ==
    {Leg(140, 150, iv, -300, volume, oi, "2026-11-20") :
        iv \in {22, 25}, volume \in {50, 100, 150}, oi \in {499, 700}}

\* The parameters as shipped, with and without the theta requirement, and
\* with a stricter IV premium
FilterConfigs ==
    {[DefaultConfig EXCEPT !.require_positive_net_theta = r, !.min_iv_premium = m] :
        r \in BOOLEAN, m \in {MIN_IV_PREMIUM_NEAR_OVER_FAR, 5}}

\* The spread_info of the candidate evaluated
SpreadInfo == [ticker |-> "T1", current_price |-> 2, strike_price |-> 1]

InitFilter ==
    /\ pc = "evaluate"
    /\ today = 0
    /\ api_key_set = TRUE
    /\ config \in FilterConfigs
    /\ expiries = <<>>
    /\ types = <<>>
    /\ ct_idx = 1
    /\ tk_idx = 1
    /\ potential_spreads = <<>>
    /\ results_df = <<>>
    /\ output = <<>>
    /\ exception = "none"
    /\ FetchIdle
    /\ ScanIdle
    /\ eval_in \in [near : NearLegs, far : FarLegs]
    /\ eval_out = Rejected("none")
    /\ OuterIdle

Evaluate ==
    /\ pc = "evaluate"
    /\ pc' = "evaluated"
    /\ eval_out' = filter_spread_candidate(SpreadInfo, eval_in.near, eval_in.far, "call", config)
    /\ UNCHANGED <<today, api_key_set, config, expiries, types, ct_idx, tk_idx,
                   potential_spreads, results_df, output, exception>>
    /\ UNCHANGED <<fetchVars, scanVars, eval_in, outerVars>>

NextFilter == Evaluate

SpecFilter == InitFilter /\ [][NextFilter]_vars

----------------------------------------------------------------------------
(* get_next_fridays on its own, for every n and reference date within the
   bounds *)

\* date.today(): every day of January and February 2024 (the 29th of
\* February is day 59), the days around the turn of the year 2024/2025, and
\* Friday 2026-11-06
ReferenceDays == (0..MaxDay) \cup (360..367) \cup {1040}

InitFridays ==
    /\ pc = "fridays"
    /\ today \in ReferenceDays
    /\ api_key_set = TRUE
    /\ config = DefaultConfig
    /\ expiries = <<>>
    /\ types = <<>>
    /\ ct_idx = 1
    /\ tk_idx = 1
    /\ potential_spreads = <<>>
    /\ results_df = <<>>
    /\ output = <<>>
    /\ exception = "none"
    /\ FetchIdle
    /\ ScanIdle
    /\ EvalIdle
    /\ __name__ = "screener"
    /\ fridays_n \in 0..MaxFridays
    /\ leg_record = JNull
    /\ leg_data = NoLeg
    /\ leg_data_again = NoLeg

\* The call get_next_fridays(n); expiries holds the list it returns
NextFridays ==
    /\ pc = "fridays"
    /\ pc' = "fridays_done"
    /\ expiries' = get_next_fridays(fridays_n, today)
    /\ UNCHANGED <<today, api_key_set, config, types, ct_idx, tk_idx,
                   potential_spreads, results_df, output, exception>>
    /\ UNCHANGED <<fetchVars, scanVars, evalVars, outerVars>>

NextOfFridays == NextFridays

SpecFridays == InitFridays /\ [][NextOfFridays]_vars

----------------------------------------------------------------------------
(* extract_detailed_option_data on its own, for provider records with every
   combination of groups and fields left out, and applied a second time to
   the LegData it returned *)

\* Marks a key that a record leaves out
Absent == [t |-> "absent"]

\* The dict {k: x}, or the empty dict when x is left out
Opt(k, x) == IF x = Absent THEN [j \in {} |-> JNull] ELSE k :> x

\* What a record holds under last_quote, greeks, details, day and
\* open_interest: nothing, null, an empty group, some of the fields, all of
\* them; the provider's "no quote" (-1); a contract_type that is null
QuoteGroups ==
    {Absent, JNull, EmptyDict,
     JDict("bid" :> JNum(200)),
     JDict("bid" :> JNum(200) @@ "ask" :> JNum(210) @@ "midpoint" :> JNum(205)),
     JDict("bid" :> JNum(-1) @@ "ask" :> JNum(-1) @@ "midpoint" :> JNum(0))}

GreeksGroups ==
    {Absent,
     JDict("theta" :> JNum(-800)),
     JDict("implied_volatility" :> JNum(30) @@ "theta" :> JNum(-800)
           @@ "delta" :> JNum(50) @@ "gamma" :> JNum(2) @@ "vega" :> JNum(10))}

DetailsGroups ==
    {Absent, EmptyDict,
     JDict("strike_price" :> JNum(1)),
     JDict("strike_price" :> JNum(1) @@ "contract_type" :> JStr("call")
           @@ "expiration_date" :> JStr("2026-11-13")),
     JDict("strike_price" :> JNum(1) @@ "contract_type" :> JNull
           @@ "expiration_date" :> JStr("2026-11-13")),
     JDict("strike_price" :> JNum(1) @@ "contract_type" :> JStr("call")
           @@ "expiration_date" :> JStr("2026-11-13")
           @@ "underlying_asset" :> JDict("ticker" :> JStr("T1")))}

DayGroups == {Absent, EmptyDict, JDict("volume" :> JNum(200))}

OpenInterests == {Absent, JNum(600), JNum(-1)}

\* The arguments: None, the records (the empty dict among them), and an
\* entry that is no object
ExtractInputs ==
    {JNull, JStr("n/a")}
    \cup {JDict(Opt("last_quote", q) @@ Opt("greeks", g) @@ Opt("details", d)
                @@ Opt("day", a) @@ Opt("open_interest", o)) :
            q \in QuoteGroups, g \in GreeksGroups, d \in DetailsGroups,
            a \in DayGroups, o \in OpenInterests}

InitExtract ==
    /\ MainIdle("extract")
    /\ FetchIdle
    /\ ScanIdle
    /\ EvalIdle
    /\ __name__ = "screener"
    /\ fridays_n = 2
    /\ leg_record \in ExtractInputs
    /\ leg_data = NoLeg
    /\ leg_data_again = NoLeg

Extract ==
    /\ pc = "extract"
    /\ pc' = "extracted"
    /\ leg_data' = extract_detailed_option_data(leg_record)
    /\ UNCHANGED <<today, api_key_set, config, expiries, types, ct_idx, tk_idx,
                   potential_spreads, results_df, output, exception>>
    /\ UNCHANGED <<fetchVars, scanVars, evalVars>>
    /\ UNCHANGED <<__name__, fridays_n, leg_record, leg_data_again>>

\* The LegData returned is itself a dict and is extracted again
Reextract ==
    /\ pc = "extracted"
    /\ leg_data.exc = "none"
    /\ pc' = "reextracted"
    /\ leg_data_again' = extract_detailed_option_data(JDict(leg_data.val))
    /\ UNCHANGED <<today, api_key_set, config, expiries, types, ct_idx, tk_idx,
                   potential_spreads, results_df, output, exception>>
    /\ UNCHANGED <<fetchVars, scanVars, evalVars>>
    /\ UNCHANGED <<__name__, fridays_n, leg_record, leg_data>>

NextExtract ==
    \/ Extract
    \/ Reextract

SpecExtract == InitExtract /\ [][NextExtract]_vars

----------------------------------------------------------------------------
(* The ranking at the end of main on its own, for every list of accepted
   results within the bounds *)

\* Net credits of accepted results, in cents
Credits == {50, 75, 120}

\* The scan order of the (contract type, ticker) pairs when both types are
\* scanned
ScanOrder ==
    [i \in 1..(2 * NumTickers) |->
        [contract_type |-> <<"call", "put">>[((i - 1) \div NumTickers) + 1],
         ticker |-> STOCKS_TO_SCAN[((i - 1) % NumTickers) + 1]]]

\* The result accepted for the i-th pair scanned, with net credit c
AcceptedRow(i, c) ==
    ResultRow([ticker |-> ScanOrder[i].ticker, current_price |-> 2, strike_price |-> 1],
              Leg(150 + c, 160 + c, 30, -800, 200, 600, "2026-11-13"),
              Leg(140, 150, 22, -300, 150, 700, "2026-11-20"),
              ScanOrder[i].contract_type)

RankInputs ==
    {[i \in 1..Len(cs) |-> AcceptedRow(i, cs[i])] :
        cs \in {c \in SeqsUpTo(Credits, MaxResults) : Len(c) <= 2 * NumTickers}}

InitRank ==
    /\ pc = "scan"
    /\ today = 0
    /\ api_key_set = TRUE
    /\ config = [DefaultConfig EXCEPT !.contract_type = "both"]
    /\ expiries = <<"2026-11-13", "2026-11-20">>
    /\ types = <<"call", "put">>
    /\ ct_idx = 3
    /\ tk_idx = 1
    /\ potential_spreads \in RankInputs
    /\ results_df = <<>>
    /\ output = <<>>
    /\ exception = "none"
    /\ FetchIdle
    /\ ScanIdle
    /\ EvalIdle
    /\ OuterIdle

NextRank == Rank

SpecRank == InitRank /\ [][NextRank]_vars

----------------------------------------------------------------------------
(* Properties of make_api_request, checked under SpecFetch *)

\* A retryable failure: a connection error, a timeout, or an HTTP error
\* status other than 401 and 404
RetryableFailure(m) ==
    \/ m.kind \in {"conn_error", "timeout"}
    \/ m.kind = "http" /\ m.status \notin {401, 404}

TerminalFailure(m) == m.kind = "http" /\ m.status \in {401, 404}

\* C5: while every attempt so far has failed with a retryable failure, each
\* attempt has issued one request and the sleeps so far are delay,
\* delay*factor, delay*factor^2, ...; a further attempt follows unless
\* `attempts` requests have been issued; and once the call has returned it
\* has issued exactly `attempts` requests, returned None and slept after
\* every attempt but the last.
C5_RetriesExactlyWithBackoff ==
    (\A i \in 1..Len(met) : RetryableFailure(met[i])) =>
        /\ requests = Len(met)
        /\ f_pc \in {"loop", "returned"}
        /\ sleeps = [i \in 1..Len(sleeps) |-> f_delay * Pow(f_factor, i - 1)]
        /\ f_pc = "loop" => /\ Len(sleeps) = requests
                            /\ requests < f_attempts \/ f_attempts = 0
        /\ f_pc = "returned" => /\ requests = f_attempts
                                /\ f_ret = JNull
                                /\ Len(sleeps) = IF f_attempts = 0 THEN 0 ELSE f_attempts - 1

\* Three timeouts and connection errors in a row with attempts = 3, delay 2
\* and factor 2: the call has returned after sleeping 2 and 4
C5_Witness ==
    /\ f_pc = "returned"
    /\ f_attempts = 3
    /\ Len(met) = 3
    /\ \A i \in 1..3 : RetryableFailure(met[i])
    /\ \E i \in 1..3 : met[i].kind = "timeout"
    /\ \E i \in 1..3 : met[i].kind = "http" /\ met[i].status = 500
    /\ f_delay = 2
    /\ f_factor = 2
    /\ sleeps = <<2, 4>>

\* C6: an attempt that receives HTTP 401 or 404 is the last one: the call
\* has returned None, no request was issued after it and no sleep followed
\* it, however many attempts remain.
C6_TerminalStatusReturnsAtOnce ==
    \A i \in 1..Len(met) :
        TerminalFailure(met[i]) =>
            /\ i = Len(met)
            /\ f_pc = "returned"
            /\ f_ret = JNull
            /\ requests = i
            /\ Len(sleeps) = i - 1

\* A 404 on the second of three attempts
C6_Witness ==
    /\ f_attempts = 3
    /\ Len(met) = 2
    /\ RetryableFailure(met[1])
    /\ met[2].kind = "http" /\ met[2].status = 404
    /\ f_pc = "returned"
    /\ requests = 2
    /\ Len(sleeps) = 1

\* C7: whatever the attempts meet, no exception escapes make_api_request,
\* and what it returns is the JSON document of the attempt that succeeded
\* or None.
C7_NoExceptionEscapes ==
    /\ f_pc # "raised"
    /\ f_exc = "none"
    /\ f_pc = "returned" =>
        \/ f_ret = JNull
        \/ /\ Len(met) > 0
           /\ met[Len(met)].kind = "ok"
           /\ f_ret \in PriceDocs

\* A malformed body, then another request error, then a JSON document
C7_Witness ==
    /\ f_pc = "returned"
    /\ Len(met) = 3
    /\ met[1].kind = "bad_body"
    /\ met[2].kind = "other"
    /\ met[3].kind = "ok"
    /\ f_ret # JNull

----------------------------------------------------------------------------
(* Properties of a screening run, checked under Spec *)

\* C1: no failure inside the scan of a (ticker, contract type) pair aborts
\* the run: no exception escapes main.
C1_ScanFailureNeverAborts ==
    /\ pc # "crashed"
    /\ exception = "none"

\* entry is a contract of type ctype at strike, expiring on exp
IsContractAt(entry, strike, ctype, exp) ==
    /\ IsDict(entry)
    /\ Has(entry, "details")
    /\ IsDict(entry.v["details"])
    /\ Get(entry.v["details"], "strike_price", JNull) = JNum(strike)
    /\ IsStr(Get(entry.v["details"], "contract_type", JNull))
    /\ Lower(entry.v["details"].v["contract_type"].v) = Lower(ctype)
    /\ Get(entry.v["details"], "expiration_date", JNull) = JStr(exp)

\* The contracts listed by a snapshot whose ATM strike was selected
Listed(log) == log.snapshot.v["tickers"].v

\* C2: a finished scan whose snapshot lists a contract of the requested
\* type at the ATM strike for the near expiry and one for the far expiry
\* has returned a candidate with such a near leg and such a far leg.
C2_BothLegsGiveCandidate ==
    ( /\ scan_log.done
      /\ scan_log.all_strikes # <<>>
      /\ \E i \in 1..Len(Listed(scan_log)) :
            IsContractAt(Listed(scan_log)[i], scan_log.atm_strike,
                         scan_log.contract_type, expiries[1])
      /\ \E i \in 1..Len(Listed(scan_log)) :
            IsContractAt(Listed(scan_log)[i], scan_log.atm_strike,
                         scan_log.contract_type, expiries[2]) )
    => /\ scan_log.exc = "none"
       /\ scan_log.ret # JNull
       /\ IsContractAt(scan_log.ret.near_leg, scan_log.atm_strike,
                       scan_log.contract_type, expiries[1])
       /\ IsContractAt(scan_log.ret.far_leg, scan_log.atm_strike,
                       scan_log.contract_type, expiries[2])

\* The snapshot of the scan under way or just finished
CurrentSnapshot == IF pc = "fetch_price" THEN options_data ELSE scan_log.snapshot

\* doc is a snapshot with contracts whose first contract embeds an
\* underlying price that is a number other than zero
HasEmbeddedPrice(doc) ==
    /\ IsDict(doc)
    /\ IsList(Get(doc, "tickers", JNull))
    /\ Len(doc.v["tickers"].v) > 0
    /\ IsDict(doc.v["tickers"].v[1])
    /\ IsDict(Get(doc.v["tickers"].v[1], "underlyingAsset", JNull))
    /\ IsNum(Get(doc.v["tickers"].v[1].v["underlyingAsset"], "price", JNull))
    /\ doc.v["tickers"].v[1].v["underlyingAsset"].v["price"].v # 0

EmbeddedPrice(doc) == doc.v["tickers"].v[1].v["underlyingAsset"].v["price"].v

----------------------------------------------------------------------------
(* The ATM strike, checked under SpecAtm *)

\* C8: the ATM strike selected from a non-empty list of strikes is one of
\* them, none of them is closer to the reference price, and of the strikes
\* equally close it is the lowest.
C8_AtmStrikeIsClosestLowerOnTie ==
    (scan_log.done /\ scan_log.all_strikes # <<>>) =>
        LET strikes == Range(scan_log.all_strikes)
            price == scan_log.current_price
            atm == scan_log.atm_strike
        IN  /\ atm \in strikes
            /\ \A k \in strikes : Abs(atm - price) <= Abs(k - price)
            /\ \A k \in strikes : Abs(k - price) = Abs(atm - price) => atm <= k

\* Strikes 5, 3, 1 are not listed in order and 3 and 5 are equally close to
\* the price 4: 3 is selected
C8_Witness ==
    /\ scan_log.done
    /\ scan_log.all_strikes = <<5, 3, 1>>
    /\ scan_log.current_price = 4
    /\ scan_log.atm_strike = 3

----------------------------------------------------------------------------
(* Properties of filter_spread_candidate, checked under SpecFilter *)

LiquidityHolds ==
    /\ eval_in.near.volume.v >= config.min_option_volume
    /\ eval_in.near.oi.v >= config.min_open_interest
    /\ eval_in.far.volume.v >= config.min_option_volume
    /\ eval_in.far.oi.v >= config.min_open_interest

NetCreditHolds == eval_in.near.bid.v - eval_in.far.ask.v >= config.min_net_credit

IvPremiumHolds == eval_in.near.iv.v - eval_in.far.iv.v >= config.min_iv_premium

NetThetaHolds ==
    \/ ~config.require_positive_net_theta
    \/ (0 - eval_in.near.theta.v) + eval_in.far.theta.v > 0

\* C3: the spread is accepted exactly when the liquidity, net credit, IV
\* premium and net theta conditions all hold, and then the triple is
\* (True, None, result) with result's numeric net credit near.bid - far.ask.
C3_AcceptsIffAllChecksHold ==
    pc = "evaluated" =>
        /\ eval_out.exc = "none"
        /\ eval_out.ok <=> (LiquidityHolds /\ NetCreditHolds /\ IvPremiumHolds /\ NetThetaHolds)
        /\ eval_out.ok =>
            /\ eval_out.reason = NoReason
            /\ eval_out.result # JNull
            /\ eval_out.result["_NetCreditNum"] = eval_in.near.bid.v - eval_in.far.ask.v

\* The accepted spread with near bid 2.00, volume 200, OI 600, IV 0.30,
\* theta -0.08 and far ask 1.50, volume 150, OI 700, IV 0.22, theta -0.03
\* under the shipped parameters: net credit 0.50
C3_Witness ==
    /\ pc = "evaluated"
    /\ config = DefaultConfig
    /\ eval_in.near = Leg(200, 210, 30, -800, 200, 600, "2026-11-13")
    /\ eval_in.far = Leg(140, 150, 22, -300, 150, 700, "2026-11-20")
    /\ eval_out.ok
    /\ eval_out.result["_NetCreditNum"] = 50
    /\ eval_out.result["Net Credit"] = "$0.50"

\* The check a rejection is due to, in the order liquidity, net credit, IV
\* premium, net theta
FirstFailingCheck ==
    IF ~LiquidityHolds THEN "Liquidity Failed"
    ELSE IF ~NetCreditHolds THEN "Net Credit Failed"
    ELSE IF ~IvPremiumHolds THEN "IV Premium Failed"
    ELSE "Net Theta Failed"

\* C4: a rejected spread gives (False, reason, None), the reason naming the
\* first check that fails in the order liquidity, net credit, IV premium,
\* net theta.
C4_RejectionNamesFirstFailingCheck ==
    (pc = "evaluated" /\ ~eval_out.ok) =>
        /\ eval_out.exc = "none"
        /\ eval_out.result = JNull
        /\ eval_out.reason # NoReason
        /\ eval_out.reason = FirstFailingCheck

\* The far volume 50 fails the liquidity check, and the net credit 0 and
\* the net theta 0 would fail theirs: the reason names liquidity
C4_Witness ==
    /\ pc = "evaluated"
    /\ config = DefaultConfig
    /\ eval_in.far.volume = JNum(50)
    /\ ~NetCreditHolds
    /\ ~NetThetaHolds
    /\ ~eval_out.ok
    /\ eval_out.reason = "Liquidity Failed"

----------------------------------------------------------------------------
(* Properties of the ranking, checked under SpecRank *)

\* a is a rearrangement of b
IsPermutationOf(a, b) ==
    /\ Len(a) = Len(b)
    /\ \E p \in Permutations(1..Len(b)) : \A i \in 1..Len(a) : a[i] = b[p[i]]

\* The place of a displayed row among the accepted results, which is the
\* order in which the pairs were scanned
ScanPosition(row) ==
    CHOOSE i \in 1..Len(potential_spreads) : DropNetCreditNum(potential_spreads)[i] = row

NetCreditOfRow(row) == potential_spreads[ScanPosition(row)]["_NetCreditNum"]

OutputDescending ==
    \A i \in 1..(Len(output) - 1) :
        NetCreditOfRow(output[i]) >= NetCreditOfRow(output[i + 1])

OutputTiesInScanOrder ==
    \A i, j \in 1..Len(output) :
        (i < j /\ NetCreditOfRow(output[i]) = NetCreditOfRow(output[j])) =>
            ScanPosition(output[i]) < ScanPosition(output[j])

----------------------------------------------------------------------------
(* The order of a run, checked under Spec *)

\* The steps of a run in order: from INIT (pc = "init") the expiries are
\* resolved, SCAN steps follow ("scan", "fetch_snapshot", "fetch_price"),
\* then RANK leads to DONE ("done")
RunOrder ==
    {<<"module", "init">>, <<"module", "script_error">>,
     <<"init", "scan">>, <<"init", "done">>,
     <<"scan", "fetch_snapshot">>, <<"scan", "done">>,
     <<"fetch_snapshot", "fetch_price">>, <<"fetch_snapshot", "scan">>,
     <<"fetch_snapshot", "crashed">>,
     <<"fetch_price", "scan">>, <<"fetch_price", "crashed">>}

\* No network request has been issued and none is under way
NoNetworkActivity ==
    /\ f_pc = "idle"
    /\ requests = 0
    /\ requested = {}

NoResult ==
    /\ potential_spreads = <<>>
    /\ results_df = <<>>
    /\ output = <<>>

\* C11: a run goes through INIT, RESOLVE_EXPIRIES, SCAN steps, RANK, DONE in
\* that order: while fewer than two expiries are resolved there is no
\* network activity and no scan, and a run that ends so has no result; a
\* request is issued only inside a SCAN step; and once RANK has led to DONE
\* nothing happens any more.
C11_RunFollowsOrder ==
    /\ [](Len(expiries) < 2 =>
            /\ NoNetworkActivity
            /\ NoResult
            /\ pc \in {"module", "script_error", "init", "done"})
    /\ [](Len(expiries) \in {0, 2})
    /\ [][/\ pc' # pc => <<pc, pc'>> \in RunOrder
          /\ requests' > requests =>
                /\ Len(expiries) = 2
                /\ pc \in {"fetch_snapshot", "fetch_price"}
          /\ pc = "done" => UNCHANGED vars
          /\ pc' = "done" /\ pc = "scan" => LoopsOver]_vars

\* A run that resolved its expiries, scanned both contract types for every
\* ticker, and reached DONE
C11_Witness ==
    /\ pc = "done"
    /\ Len(expiries) = 2
    /\ types = <<"call", "put">>
    /\ ct_idx = 3
    /\ scan_log.done
    /\ scan_log.ticker = STOCKS_TO_SCAN[NumTickers]
    /\ scan_log.contract_type = "put"
    /\ "snapshot" \in requested

----------------------------------------------------------------------------
(* Properties of extract_detailed_option_data, checked under SpecExtract *)

\* The fields of a LegData and where a provider record holds each:
\* <<field, group, key>>
NumericSources ==
    {<<"bid", "last_quote", "bid">>, <<"ask", "last_quote", "ask">>,
     <<"mid", "last_quote", "midpoint">>,
     <<"iv", "greeks", "implied_volatility">>, <<"theta", "greeks", "theta">>,
     <<"delta", "greeks", "delta">>, <<"gamma", "greeks", "gamma">>,
     <<"vega", "greeks", "vega">>, <<"volume", "day", "volume">>}

IdentitySources ==
    {<<"expiry_date", "details", "expiration_date">>,
     <<"strike_price", "details", "strike_price">>,
     <<"contract_type", "details", "contract_type">>}

LegFields ==
    {"bid", "ask", "mid", "iv", "theta", "delta", "gamma", "vega", "volume", "oi",
     "expiry_date", "strike_price", "contract_type", "underlying_ticker"}

\* Record r holds key under its group
Present(r, group, key) ==
    /\ IsDict(r)
    /\ Has(r, group)
    /\ IsDict(r.v[group])
    /\ Has(r.v[group], key)

\* Record r names its underlying ticker
TickerPresent(r) ==
    /\ Present(r, "details", "underlying_asset")
    /\ IsDict(r.v["details"].v["underlying_asset"])
    /\ Has(r.v["details"].v["underlying_asset"], "ticker")

\* The inputs of C12: None, the empty record, or a provider record, any of
\* whose groups may be missing (one that is there is an object)
RecordOrAbsent(r) ==
    \/ r = JNull
    \/ /\ IsDict(r)
       /\ \A g \in {"last_quote", "greeks", "details", "day"} : Has(r, g) => IsDict(r.v[g])

\* Every numeric field is 0 and every identity field is null
AllDefault(leg) ==
    /\ DOMAIN leg = LegFields
    /\ \A f \in {"bid", "ask", "mid", "iv", "theta", "delta", "gamma", "vega",
                  "volume", "oi"} : leg[f] = JNum(0)
    /\ \A f \in {"expiry_date", "strike_price", "contract_type", "underlying_ticker"} :
            leg[f] = JNull

Extracted == pc \in {"extracted", "reextracted"}

\* C12: for None, the empty record and every provider record, whichever
\* groups and fields it leaves out, the extraction raises nothing and
\* returns a LegData with all its fields: a field the record holds is
\* copied, a missing numeric field is 0, a missing identity field is null,
\* and None and the empty record give the all-default LegData.
C12_ExtractTotalWithDefaults ==
    (Extracted /\ RecordOrAbsent(leg_record)) =>
        /\ leg_data.exc = "none"
        /\ DOMAIN leg_data.val = LegFields
        /\ \A src \in NumericSources :
                leg_data.val[src[1]] =
                    IF Present(leg_record, src[2], src[3])
                    THEN leg_record.v[src[2]].v[src[3]] ELSE JNum(0)
        /\ leg_data.val["oi"] =
                IF IsDict(leg_record) /\ Has(leg_record, "open_interest")
                THEN leg_record.v["open_interest"] ELSE JNum(0)
        /\ \A src \in IdentitySources :
                leg_data.val[src[1]] =
                    IF Present(leg_record, src[2], src[3])
                    THEN leg_record.v[src[2]].v[src[3]] ELSE JNull
        /\ leg_data.val["underlying_ticker"] =
                IF TickerPresent(leg_record)
                THEN leg_record.v["details"].v["underlying_asset"].v["ticker"] ELSE JNull
        /\ ~Truthy(leg_record) => AllDefault(leg_data.val)

\* A record with only a bid in its quote, only a theta in its greeks, no
\* details, an empty day group and no open interest
C12_Witness ==
    /\ pc = "extracted"
    /\ leg_record = JDict("last_quote" :> JDict("bid" :> JNum(200))
                          @@ "greeks" :> JDict("theta" :> JNum(-800))
                          @@ "day" :> EmptyDict)
    /\ leg_data.exc = "none"
    /\ leg_data.val = [DefaultLeg EXCEPT !.bid = JNum(200), !.theta = JNum(-800)]

\* C13 as stated: every LegData extracted has bid, ask, mid, volume and oi
\* at least 0, and its expiry_date, strike_price and contract_type are null
\* only if the record was empty or absent.
C13_LegDataInvariant ==
    (Extracted /\ leg_data.exc = "none") =>
        /\ \A f \in {"bid", "ask", "mid", "volume", "oi"} :
                IsNum(leg_data.val[f]) /\ leg_data.val[f].v >= 0
        /\ \A f \in {"expiry_date", "strike_price", "contract_type"} :
                leg_data.val[f] = JNull => ~Truthy(leg_record)

\* The record holds a number below 0 under the key
NegativeInRecord(r, group, key) ==
    /\ Present(r, group, key)
    /\ IsNum(r.v[group].v[key])
    /\ r.v[group].v[key].v < 0

\* C13 as it holds: bid, ask, mid, volume and oi are at least 0 unless the
\* record itself holds a negative value there, and expiry_date,
\* strike_price and contract_type are null only if the record's details
\* lack the field or hold null for it.
C13_LegDataInheritsFromRecord ==
    (Extracted /\ leg_data.exc = "none") =>
        /\ \A src \in {s \in NumericSources : s[1] \in {"bid", "ask", "mid", "volume"}} :
                \/ IsNum(leg_data.val[src[1]]) /\ leg_data.val[src[1]].v >= 0
                \/ NegativeInRecord(leg_record, src[2], src[3])
        /\ \/ IsNum(leg_data.val["oi"]) /\ leg_data.val["oi"].v >= 0
           \/ /\ IsDict(leg_record)
              /\ Has(leg_record, "open_interest")
              /\ leg_record.v["open_interest"].v < 0
        /\ \A src \in IdentitySources :
                leg_data.val[src[1]] = JNull =>
                    \/ ~Present(leg_record, src[2], src[3])
                    \/ leg_record.v[src[2]].v[src[3]] = JNull

\* A record with a full quote, volume and open interest but no details:
\* the numbers are copied and the identity fields are null
C13_Witness ==
    /\ pc = "extracted"
    /\ IsDict(leg_record)
    /\ Truthy(leg_record)
    /\ ~Has(leg_record, "details")
    /\ leg_data.exc = "none"
    /\ leg_data.val["bid"] = JNum(200)
    /\ leg_data.val["ask"] = JNum(210)
    /\ leg_data.val["volume"] = JNum(200)
    /\ leg_data.val["oi"] = JNum(600)
    /\ leg_data.val["expiry_date"] = JNull
    /\ leg_data.val["strike_price"] = JNull
    /\ leg_data.val["contract_type"] = JNull

\* C14 as stated: extracting a LegData again gives the same LegData.
C14_ExtractIdempotent ==
    pc = "reextracted" => leg_data_again = leg_data

\* C14 as it holds: extracting a LegData again raises nothing and gives the
\* all-default LegData, which equals the first LegData exactly when that
\* one was all-default already.
C14_ReextractGivesDefaults ==
    pc = "reextracted" =>
        /\ leg_data_again.exc = "none"
        /\ AllDefault(leg_data_again.val)
        /\ leg_data_again = leg_data <=> AllDefault(leg_data.val)

\* The LegData of a full record, with bid 200 and strike 1, extracted again
C14_Witness ==
    /\ pc = "reextracted"
    /\ leg_data.val["bid"] = JNum(200)
    /\ leg_data.val["oi"] = JNum(600)
    /\ leg_data.val["strike_price"] = JNum(1)
    /\ leg_data.val["expiry_date"] = JStr("2026-11-13")
    /\ AllDefault(leg_data_again.val)
    /\ leg_data_again # leg_data

----------------------------------------------------------------------------
(* Properties of get_next_fridays, checked under SpecFridays *)

\* The day a 'YYYY-MM-DD' string names, looked for from a week before the
\* reference date to a week after the last date that can be asked for
ParseDate(str) ==
    CHOOSE d \in (IF today < 7 THEN 0 ELSE today - 7)..(today + 7 * (fridays_n + 2)) :
        strftime(d) = str

\* C15: get_next_fridays(n) returns exactly n dates, each a Friday after
\* the reference date, each 7 days after the one before; and when the
\* reference date is a Friday the first one is 7 days after it.
C15_NextFridays ==
    pc = "fridays_done" =>
        /\ Len(expiries) = fridays_n
        /\ \A i \in 1..Len(expiries) :
                /\ weekday(ParseDate(expiries[i])) = 4
                /\ ParseDate(expiries[i]) > today
        /\ \A i \in 1..(Len(expiries) - 1) :
                ParseDate(expiries[i + 1]) = ParseDate(expiries[i]) + 7
        /\ (weekday(today) = 4 /\ fridays_n >= 1) => ParseDate(expiries[1]) = today + 7

\* On Friday 2026-11-06 the next three Fridays are the 13th, 20th and 27th
C15_Witness ==
    /\ pc = "fridays_done"
    /\ today = 1040
    /\ weekday(today) = 4
    /\ strftime(today) = "2026-11-06"
    /\ fridays_n = 3
    /\ expiries = <<"2026-11-13", "2026-11-20", "2026-11-27">>

----------------------------------------------------------------------------
(* screener.py executed as a script, checked under Spec *)

\* C16: executed as a script with an API key configured, the module starts
\* a screening run and that run comes to DONE, every (contract type,
\* ticker) pair scanned: the execution never ends in an error, neither
\* before main() is called nor inside it, and when it is done both loops
\* have run to their end.
C16_ScriptRunsToDone ==
    (__name__ = "__main__" /\ api_key_set) =>
        /\ pc \notin {"script_error", "crashed"}
        /\ exception = "none"
        /\ pc = "done" =>
            /\ Len(expiries) = 2
            /\ LoopsOver
            /\ tk_idx = 1

====
